---- MODULE Spec2Model ----
(***************************************************************************)
(* Tab strip of the Arto desktop application: in-window tab reordering     *)
(* (handle_tab_reorder), the two-phase cross-window tab transfer           *)
(* (handle_move_to_window) over the process-wide broadcast channels, the   *)
(* drag handlers of a tab with the process-wide drag registry and each     *)
(* window's TabDragState, and the move of a tab to a new window.           *)
(*                                                                         *)
(* Indices are the 0-based usize indices of the Rust source; the sequence  *)
(* operators below convert to the 1-based TLA+ sequences.                  *)
(***************************************************************************)
EXTENDS Integers, Sequences, FiniteSets, Bags, TLC

\* ------------------------------------------------------------------ bounds
MaxTabs == 3        \* longest tab collection drawn for the reorder inputs
InitTabs == 2       \* tabs each window holds when the transfer model starts
MaxTransfers == 2   \* transfer requests (fresh request ids) per behaviour
MaxCloses == 1      \* clicks on a tab's close button per behaviour
MaxNewWindows == 1  \* moves of a tab to a new window per behaviour
MaxTriggers == 2    \* trigger_animation calls whose timer is still asleep, per window

\* the main windows of the process: two, each one a source and a target
Windows == {1, 2}
ReqIds == 1..MaxTransfers
NewWindowIds == 1..MaxNewWindows

VARIABLES
    tabs,       \* AppState.tabs of each window: sequence of tab identities
    active,     \* AppState.active_tab of each window (0-based)
    last,       \* the last handle_tab_reorder call: arguments, pre-state, result
    task,       \* the transfer task spawned for each request id
    issued,     \* number of request ids generated so far
    closes,     \* number of close-button clicks so far
    missed,     \* request ids whose response was emitted before the source subscribed
    registry,   \* DRAGGED_TAB, the process-wide Option<DraggedTab>
    drag,       \* AppState.tab_drag_state of each window
    flowb,      \* the tasks spawned to move a tab to a new window
    lastop,     \* the last drag handler that ran: its window, arguments, pre-state
    item,       \* the TabItem rendered last: its props and its is_transferable
    timers      \* per window, the 300 ms timers of trigger_animation still asleep

\* the state of dragging, of the moves to a new window, and of rendering
uiVars == <<registry, drag, flowb, lastop, item, timers>>

vars == <<tabs, active, last, task, issued, closes, missed, uiVars>>

\* ------------------------------------------------------------- Vec helpers
\* Option<usize>
None == <<>>
Some(x) == <<x>>

\* Vec::remove(i), i 0-based and in range
VecRemove(v, i) == SubSeq(v, 1, i) \o SubSeq(v, i + 2, Len(v))

\* variant: v[i] = x, an assignment in place of an insertion
VecInsert_Overwrite(v, i, x) ==
    IF i < Len(v) THEN [v EXCEPT ![i + 1] = x] ELSE v \o <<x>>

\* Vec::insert(i, x), i 0-based and i <= len
VecInsert(v, i, x) == SubSeq(v, 1, i) \o <<x>> \o SubSeq(v, i + 1, Len(v))

\* v[i], i 0-based
At(v, i) == v[i + 1]

Range(v) == {v[k] : k \in 1..Len(v)}

\* ------------------------------------------------------ handle_tab_reorder
\* variant: the same-position early return is missing
ReorderRejected_NoSameCheck(len, from_index, to_index) ==
    \/ from_index >= len
    \/ to_index > len

\* the early returns: same position, or an index out of range
ReorderRejected(len, from_index, to_index) ==
    \/ from_index = to_index
    \/ from_index >= len
    \/ to_index > len

\* variant: a backward move lands one place to the left of from_index
InsertIndex_BackwardByOne(from_index, to_index) ==
    IF from_index < to_index THEN to_index - 1 ELSE from_index - 1

\* insert position, accounting for the removal
InsertIndex(from_index, to_index) ==
    IF from_index < to_index THEN to_index - 1 ELSE to_index

\* variant: the forward-shift arm tests idx < insert_index
NewActive_StrictUpper(current_active, from_index, insert_index) ==
    IF current_active = from_index THEN insert_index
    ELSE IF from_index < current_active /\ current_active < insert_index
         THEN current_active - 1
    ELSE IF insert_index <= current_active /\ current_active < from_index
         THEN current_active + 1
    ELSE current_active

\* variant: the moved active tab is given to_index, not insert_index
NewActive_UnadjustedTo(current_active, from_index, insert_index) ==
    IF current_active = from_index
    THEN (IF from_index <= insert_index THEN insert_index + 1 ELSE insert_index)
    ELSE IF from_index < current_active /\ current_active <= insert_index
         THEN current_active - 1
    ELSE IF insert_index <= current_active /\ current_active < from_index
         THEN current_active + 1
    ELSE current_active

\* the active index follows the moved tab
NewActive(current_active, from_index, insert_index) ==
    IF current_active = from_index THEN insert_index
    ELSE IF from_index < current_active /\ current_active <= insert_index
         THEN current_active - 1
    ELSE IF insert_index <= current_active /\ current_active < from_index
         THEN current_active + 1
    ELSE current_active

\* the tab vector after remove + insert
MoveTab(v, from_index, insert_index) ==
    VecInsert(VecRemove(v, from_index), insert_index, At(v, from_index))

\* the whole function: new tabs, new active index, returned Option<usize>
handle_tab_reorder(v, current_active, from_index, to_index) ==
    IF ReorderRejected(Len(v), from_index, to_index)
    THEN [tabs |-> v, active |-> current_active, result |-> None]
    ELSE LET insert_index == InsertIndex(from_index, to_index)
         IN  [tabs   |-> MoveTab(v, from_index, insert_index),
              active |-> NewActive(current_active, from_index, insert_index),
              result |-> Some(insert_index)]

\* -------------------------------------------------------------- tab values
\* Tab::default(): the placeholder tab of a fresh window
DefaultTab == 0

\* the identity of the preferences tab (TabContent::Preferences)
PreferencesTab == -1

\* the content variant of each tab identity
ContentKinds == <<"File", "FileError", "Inline">>
Content(tab) ==
    IF tab = DefaultTab THEN "None"
    ELSE IF tab = PreferencesTab THEN "Preferences"
    ELSE ContentKinds[((tab - 1) % 3) + 1]

\* non-empty vectors of distinct tab identities, at most MaxTabs long
TabVectors ==
    {v \in UNION {[1..n -> 1..MaxTabs] : n \in 1..MaxTabs} :
        \A i, j \in 1..Len(v) : i # j => v[i] # v[j]}

\* arguments of a reorder call: in range, one past the end, and beyond
ReorderArgs == 0..(MaxTabs + 1)

\* ------------------------------------------------------------ transfer task
NoResponse == [kind |-> "none", id |-> 0]

IdleTask ==
    [pc |-> "idle", src |-> 0, target |-> 0, index |-> 0, tab |-> 0,
     subscribed |-> FALSE, rx |-> <<>>, request |-> "none",
     outcome |-> "none", cause |-> NoResponse, removed |-> 0,
     ignored |-> 0]

\* AppState::default(): one default tab, active index 0
DefaultTabs == <<DefaultTab>>

NoCall ==
    [w |-> 0, from |-> 0, to |-> 0, tabs |-> <<>>, active |-> 0, result |-> None]

\* ------------------------------------------------------------ drag tracking
\* DraggedTab::target_window_id and the slot itself are Options
\* variant: start keeps the record the slot already holds
start_tab_drag_KeepsExisting(slot, window_id, tab_index, offset_x, offset_y) ==
    IF slot # None
    THEN slot
    ELSE Some([source_window_id |-> window_id, source_tab_index |-> tab_index,
               offset_x |-> offset_x, offset_y |-> offset_y,
               target_window_id |-> None])

start_tab_drag(slot, window_id, tab_index, offset_x, offset_y) ==
    Some([source_window_id |-> window_id, source_tab_index |-> tab_index,
          offset_x |-> offset_x, offset_y |-> offset_y,
          target_window_id |-> None])

end_tab_drag(slot) == None

get_dragged_tab(slot) == slot

set_target_window(slot, window_id) ==
    IF slot # None
    THEN Some([slot[1] EXCEPT !.target_window_id = Some(window_id)])
    ELSE slot

\* variant: clearing the target empties the slot
clear_target_window_EmptiesSlot(slot) == None

clear_target_window(slot) ==
    IF slot # None
    THEN Some([slot[1] EXCEPT !.target_window_id = None])
    ELSE slot

\* ------------------------------------------------------------ TabDragState
\* TabDragState::new()
TabDragState_new ==
    [dragging_tab_index |-> None, drop_target_index |-> None, animating |-> FALSE]

start_drag(d, index) ==
    [d EXCEPT !.dragging_tab_index = Some(index), !.drop_target_index = None,
              !.animating = FALSE]

update_drop_target(d, index) == [d EXCEPT !.drop_target_index = index]

\* variant: end_drag leaves the drop target where it was
end_drag_KeepsDropTarget(d) == [d EXCEPT !.dragging_tab_index = None]

end_drag(d) ==
    [d EXCEPT !.dragging_tab_index = None, !.drop_target_index = None]

\* trigger_animation, the part that runs in the caller: animating.set(true)
trigger_animation(d) == [d EXCEPT !.animating = TRUE]

\* the spawned timer after its sleep: animating.set(false)
animation_timer(d) == [d EXCEPT !.animating = FALSE]

\* ------------------------------------------------------- idle values (UI)
\* a slot of flowb before its task is spawned
IdleNewWindow ==
    [pc |-> "idle", trigger |-> "none", src |-> 0, index |-> 0, tab |-> 0,
     created |-> FALSE, closed |-> FALSE]

\* lastop when the last handler is none of those the claims are about.
\* replaced is the source window of the record the handler found in the
\* registry (0 if none), marked whether it found a drop target in the
\* window's TabDragState, tabs the tab collections it found
NoOp ==
    [op |-> "none", w |-> 0, index |-> 0, offset |-> <<0, 0>>,
     replaced |-> 0, marked |-> FALSE, tabs |-> <<>>]

\* the source window of the record in the slot, 0 if the slot is empty
SourceOf(slot) == IF slot # None THEN slot[1].source_window_id ELSE 0

NoItem ==
    [w |-> 0, index |-> 0, content |-> "None", tabs_count |-> 0,
     is_transferable |-> FALSE]

\* nothing is dragged, no move to a new window is under way
InitUI ==
    /\ registry = None
    /\ drag = [w \in Windows |-> TabDragState_new]
    /\ flowb = [k \in NewWindowIds |-> IdleNewWindow]
    /\ lastop = NoOp
    /\ item = NoItem
    /\ timers = [w \in Windows |-> 0]

\* ------------------------------------------------- specification: reorder
\* the inputs of handle_tab_reorder: window 1 holds any non-empty collection
\* with its active index in range, the other windows their initial state
InitReorder ==
    /\ \E v \in TabVectors :
          tabs = [w \in Windows |-> IF w = 1 THEN v ELSE DefaultTabs]
    /\ \E a \in 0..(MaxTabs - 1) :
          /\ a < Len(tabs[1])
          /\ active = [w \in Windows |-> IF w = 1 THEN a ELSE 0]
    /\ last = NoCall
    /\ task = [r \in ReqIds |-> IdleTask]
    /\ issued = 0
    /\ closes = 0
    /\ missed = {}
    /\ InitUI

Reorder(w, from_index, to_index) ==
    LET r == handle_tab_reorder(tabs[w], active[w], from_index, to_index)
    IN  /\ tabs' = [tabs EXCEPT ![w] = r.tabs]
        /\ active' = [active EXCEPT ![w] = r.active]
        /\ last' = [w |-> w, from |-> from_index, to |-> to_index,
                    tabs |-> tabs[w], active |-> active[w], result |-> r.result]
        /\ UNCHANGED <<task, issued, closes, missed, uiVars>>

NextReorder ==
    \E w \in Windows, from_index \in ReorderArgs, to_index \in ReorderArgs :
        Reorder(w, from_index, to_index)

SpecReorder == InitReorder /\ [][NextReorder]_vars

\* ------------------------------------------------ state operations (tabs)
\* variant: the number of tabs of the window is not looked at
is_transferable_AnyCount(content, tabs_count) ==
    content \in {"File", "FileError"}

\* TabItem: is_transferable, evaluated when the tab is rendered
is_transferable(content, tabs_count) ==
    /\ content \in {"File", "FileError"}
    /\ tabs_count > 1

\* AppState::get_tab(index): a copy of the tab at index, if there is one
get_tab(v, index) == IF index < Len(v) THEN Some(At(v, index)) ELSE None

\* the active index after the tab at index has been removed from a
\* collection that keeps newlen tabs
ActiveAfterClose(act, index, newlen) ==
    IF act > index THEN act - 1
    ELSE IF act >= newlen THEN newlen - 1
    ELSE act

\* AppState::close_tab(index): the outcomes the design allows. An index out
\* of range changes nothing; the sole remaining tab is either kept or
\* replaced by an empty tab; otherwise the tab is removed and the active
\* index re-derived.
close_tab(v, act, index) ==
    IF index >= Len(v)
    THEN {[tabs |-> v, active |-> act, removed |-> 0]}
    ELSE IF Len(v) = 1
    THEN {[tabs |-> v, active |-> act, removed |-> 0],
          [tabs |-> DefaultTabs, active |-> 0, removed |-> 1]}
    ELSE {[tabs   |-> VecRemove(v, index),
           active |-> ActiveAfterClose(act, index, Len(v) - 1),
           removed |-> 1]}

\* ---------------------------------------------------- handle_move_to_window
Ack(id) == [kind |-> "Ack", id |-> id]
Nack(id) == [kind |-> "Nack", id |-> id]

\* variant: the request is published before the task subscribes
TaskSteps_SendFirst == <<"send", "subscribe">>

\* the spawned task before its wait loop, in program order
TaskSteps == <<"subscribe", "send">>

StepAt(t) ==
    IF t.pc = "step1" THEN TaskSteps[1]
    ELSE IF t.pc = "step2" THEN TaskSteps[2]
    ELSE "none"

PcAfter(pc) == IF pc = "step1" THEN "step2" ELSE "waiting"

\* variant: the Ack arm has no guard on the request id
IsMatchingAck_AnyId(response, request_id) ==
    response.kind = "Ack"

\* the match arms of the wait loop
IsMatchingAck(response, request_id) ==
    response.kind = "Ack" /\ response.id = request_id

IsMatchingNack(response, request_id) ==
    response.kind = "Nack" /\ response.id = request_id

\* TAB_TRANSFER_RESPONSE.send: every live receiver gets the response (a
\* receiver whose task waits for the timer alone is never read again, so
\* what reaches it is not kept)
Broadcast(tk, response) ==
    [r \in ReqIds |->
        IF tk[r].subscribed /\ tk[r].pc # "timer_only"
        THEN [tk[r] EXCEPT !.rx = Append(@, response)]
        ELSE tk[r]]

\* the task returns or breaks out of the loop: its receiver is dropped
Finished(t, outcome, cause, removed) ==
    [t EXCEPT !.pc = "done", !.subscribed = FALSE, !.rx = <<>>,
              !.outcome = outcome, !.cause = cause, !.removed = removed]

\* "Move to Window" chosen in the context menu of the tab rendered at index
\* (the menu is disabled unless the tab is transferable, and lists the
\* other windows only): prepare the request and spawn the task
StartMove(w, index, target) ==
    /\ issued < MaxTransfers
    /\ target # w
    /\ index < Len(tabs[w])
    /\ is_transferable(Content(At(tabs[w], index)), Len(tabs[w]))
    /\ get_tab(tabs[w], index) # None
    /\ issued' = issued + 1
    /\ task' = [task EXCEPT ![issued + 1] =
                   [IdleTask EXCEPT !.pc = "step1", !.src = w, !.target = target,
                                    !.index = index,
                                    !.tab = get_tab(tabs[w], index)[1]]]
    /\ UNCHANGED <<tabs, active, last, closes, missed, uiVars>>

\* let mut rx = TAB_TRANSFER_RESPONSE.subscribe()
Subscribe(r) ==
    /\ StepAt(task[r]) = "subscribe"
    /\ task' = [task EXCEPT ![r].subscribed = TRUE, ![r].pc = PcAfter(@)]
    /\ UNCHANGED <<tabs, active, last, issued, closes, missed, uiVars>>

\* TAB_TRANSFER_REQUEST.send(request) succeeds: the request is in flight
SendRequest(r) ==
    /\ StepAt(task[r]) = "send"
    /\ task' = [task EXCEPT ![r].request = "pending", ![r].pc = PcAfter(@)]
    /\ UNCHANGED <<tabs, active, last, issued, closes, missed, uiVars>>

\* variant: the send error is logged and the task goes on to its wait loop
SendFails_EntersLoop(r) ==
    /\ StepAt(task[r]) = "send"
    /\ task' = [task EXCEPT ![r].pc = PcAfter(@)]
    /\ UNCHANGED <<tabs, active, last, issued, closes, missed, uiVars>>

\* TAB_TRANSFER_REQUEST.send(request) is an error (no receiver): return
SendFails(r) ==
    /\ StepAt(task[r]) = "send"
    /\ task' = [task EXCEPT ![r] = Finished(@, "sendfail", NoResponse, 0)]
    /\ UNCHANGED <<tabs, active, last, issued, closes, missed, uiVars>>

\* the task is suspended in select!: on both arms ("waiting"), or on the
\* timer alone after rx.recv() returned an error, which disables the
\* `Ok(response) = rx.recv()` arm for this select! ("timer_only")
InSelect(t) == t.pc \in {"waiting", "timer_only"}

\* variant: the timeout arm closes the tab before breaking
Timeout_Closes(r) ==
    /\ InSelect(task[r])
    /\ \E c \in close_tab(tabs[task[r].src], active[task[r].src], task[r].index) :
          /\ tabs' = [tabs EXCEPT ![task[r].src] = c.tabs]
          /\ active' = [active EXCEPT ![task[r].src] = c.active]
    /\ task' = [task EXCEPT ![r] = Finished(@, "timeout", NoResponse, 0)]
    /\ UNCHANGED <<last, issued, closes, missed, uiVars>>

\* variant: the timer is polled only while the receive arm is enabled
Timeout_NotAfterError(r) ==
    /\ task[r].pc = "waiting"
    /\ task' = [task EXCEPT ![r] = Finished(@, "timeout", NoResponse, 0)]
    /\ UNCHANGED <<tabs, active, last, issued, closes, missed, uiVars>>

\* the timeout arm of select!
Timeout(r) ==
    /\ InSelect(task[r])
    /\ task' = [task EXCEPT ![r] = Finished(@, "timeout", NoResponse, 0)]
    /\ UNCHANGED <<tabs, active, last, issued, closes, missed, uiVars>>

\* rx.recv() is an error (the receiver lagged, or the channel closed): the
\* pattern does not match, the arm is disabled and select! waits for the
\* timer alone
RecvError(r) ==
    /\ task[r].pc = "waiting"
    /\ task' = [task EXCEPT ![r].pc = "timer_only", ![r].rx = <<>>]
    /\ UNCHANGED <<tabs, active, last, issued, closes, missed, uiVars>>

\* rx.recv() yields the matching Ack: commit, close_tab(index)
RecvAck(r) ==
    /\ task[r].pc = "waiting"
    /\ task[r].rx # <<>>
    /\ IsMatchingAck(Head(task[r].rx), r)
    /\ \E c \in close_tab(tabs[task[r].src], active[task[r].src], task[r].index) :
          /\ tabs' = [tabs EXCEPT ![task[r].src] = c.tabs]
          /\ active' = [active EXCEPT ![task[r].src] = c.active]
          /\ task' = [task EXCEPT ![r] =
                         Finished(@, "ack", Head(task[r].rx), c.removed)]
    /\ UNCHANGED <<last, issued, closes, missed, uiVars>>

\* rx.recv() yields the matching Nack: rollback, nothing to undo
RecvNack(r) ==
    /\ task[r].pc = "waiting"
    /\ task[r].rx # <<>>
    /\ ~IsMatchingAck(Head(task[r].rx), r)
    /\ IsMatchingNack(Head(task[r].rx), r)
    /\ task' = [task EXCEPT ![r] = Finished(@, "nack", Head(task[r].rx), 0)]
    /\ UNCHANGED <<tabs, active, last, issued, closes, missed, uiVars>>

\* rx.recv() yields any other response: ignore it and keep listening
RecvUnrelated(r) ==
    /\ task[r].pc = "waiting"
    /\ task[r].rx # <<>>
    /\ ~IsMatchingAck(Head(task[r].rx), r)
    /\ ~IsMatchingNack(Head(task[r].rx), r)
    /\ task' = [task EXCEPT ![r].rx = Tail(@), ![r].ignored = @ + 1]
    /\ UNCHANGED <<tabs, active, last, issued, closes, missed, uiVars>>

\* ------------------------------------------------ the target window's side
\* a response to request r is emitted while the source of r has not yet
\* subscribed: its receiver will never see it
EmittedUnheard(r) ==
    IF task[r].pc \in {"step1", "step2"} /\ ~task[r].subscribed THEN {r} ELSE {}

\* the addressed window accepts the request: it takes the tab carried by
\* the request into its collection and answers Ack
TargetAccept(r) ==
    /\ task[r].request = "pending"
    /\ tabs' = [tabs EXCEPT ![task[r].target] = Append(@, task[r].tab)]
    /\ task' = Broadcast([task EXCEPT ![r].request = "accepted"], Ack(r))
    /\ missed' = missed \cup EmittedUnheard(r)
    /\ UNCHANGED <<active, last, issued, closes, uiVars>>

\* the addressed window refuses the request and answers Nack
TargetReject(r) ==
    /\ task[r].request = "pending"
    /\ task' = Broadcast([task EXCEPT ![r].request = "rejected"], Nack(r))
    /\ missed' = missed \cup EmittedUnheard(r)
    /\ UNCHANGED <<tabs, active, last, issued, closes, uiVars>>

\* ----------------------------------------------------- the close button
\* onclick of the tab-close button of the tab rendered at index
CloseTabClick(w, index) ==
    /\ closes < MaxCloses
    /\ index < Len(tabs[w])
    /\ closes' = closes + 1
    /\ \E c \in close_tab(tabs[w], active[w], index) :
          /\ tabs' = [tabs EXCEPT ![w] = c.tabs]
          /\ active' = [active EXCEPT ![w] = c.active]
    /\ UNCHANGED <<last, task, issued, missed, uiVars>>

\* ------------------------------------------------ specification: transfer
\* window w opens with InitTabs tabs of its own, the first one active
InitTabsOf(w) == [k \in 1..InitTabs |-> (w - 1) * InitTabs + k]

InitTransfer ==
    /\ tabs = [w \in Windows |-> InitTabsOf(w)]
    /\ active = [w \in Windows |-> 0]
    /\ last = NoCall
    /\ task = [r \in ReqIds |-> IdleTask]
    /\ issued = 0
    /\ closes = 0
    /\ missed = {}
    /\ InitUI

NextTransfer ==
    \/ \E w \in Windows, target \in Windows, index \in 0..(InitTabs + MaxTransfers) :
          StartMove(w, index, target)
    \/ \E r \in ReqIds : Subscribe(r)
    \/ \E r \in ReqIds : SendRequest(r)
    \/ \E r \in ReqIds : SendFails(r)
    \/ \E r \in ReqIds : Timeout(r)
    \/ \E r \in ReqIds : RecvAck(r)
    \/ \E r \in ReqIds : RecvNack(r)
    \/ \E r \in ReqIds : RecvUnrelated(r)
    \/ \E r \in ReqIds : RecvError(r)
    \/ \E r \in ReqIds : TargetAccept(r)
    \/ \E r \in ReqIds : TargetReject(r)

SpecTransfer == InitTransfer /\ [][NextTransfer]_vars

\* the same, with the timer of every wait loop eventually firing
SpecTransferLive ==
    SpecTransfer /\ \A r \in ReqIds : WF_vars(Timeout(r))

\* ------------------------- specification: transfer, with the close button
\* the transfer protocol while the user also closes tabs
NextTransferUI ==
    \/ NextTransfer
    \/ \E w \in Windows, index \in 0..(InitTabs + MaxTransfers) :
          CloseTabClick(w, index)

SpecTransferUI == InitTransfer /\ [][NextTransferUI]_vars

\* ------------------------------------------------------- drag handlers
\* pointer offsets within the tab element reported by a dragstart event
Offsets == {<<0, 0>>, <<5, 7>>}

\* the flowb slot the next spawned task takes
NextNewWindow == Cardinality({k \in NewWindowIds : flowb[k].pc # "idle"}) + 1

\* spawn(async move { create_new_main_window(tab, params).await; ... })
Spawned(trigger, w, index, tab, closed) ==
    [flowb EXCEPT ![NextNewWindow] =
        [pc |-> "creating", trigger |-> trigger, src |-> w, index |-> index,
         tab |-> tab, created |-> FALSE, closed |-> closed]]

\* ondragstart of the tab rendered at index (the element is draggable only
\* if the tab is transferable)
DragStart(w, index, offset) ==
    /\ index < Len(tabs[w])
    /\ is_transferable(Content(At(tabs[w], index)), Len(tabs[w]))
    /\ registry' = start_tab_drag(registry, w, index, offset[1], offset[2])
    /\ drag' = [drag EXCEPT ![w] = start_drag(@, index)]
    /\ lastop' = [NoOp EXCEPT !.op = "dragstart", !.w = w, !.index = index,
                              !.offset = offset,
                              !.replaced = SourceOf(registry)]
    /\ UNCHANGED <<tabs, active, last, task, issued, closes, missed, flowb, item, timers>>

\* was_dropped_in_window(): whether the drop handler of a window took the drop
DropTaken == BOOLEAN

\* ondragend of the tab whose drag began in window w
DragEnd(w, in_window) ==
    LET dragged == get_dragged_tab(registry)
        tab == IF dragged # None
               THEN get_tab(tabs[w], dragged[1].source_tab_index)
               ELSE None
    IN  /\ drag[w].dragging_tab_index # None
        /\ IF dragged # None /\ ~in_window /\ tab # None
           THEN /\ NextNewWindow \in NewWindowIds
                /\ flowb' = Spawned("drag", w, dragged[1].source_tab_index,
                                    tab[1], FALSE)
           ELSE UNCHANGED flowb
        /\ registry' = end_tab_drag(registry)
        /\ drag' = [drag EXCEPT ![w] = end_drag(@)]
        /\ lastop' = [NoOp EXCEPT !.op = "dragend", !.w = w,
                                  !.replaced = SourceOf(registry),
                                  !.marked = drag[w].drop_target_index # None,
                                  !.tabs = tabs]
        /\ UNCHANGED <<tabs, active, last, task, issued, closes, missed, item, timers>>

\* the task spawned by ondragend: the window is created, then
\* state.close_tab(source_tab_index)
DragTaskDone(k) ==
    /\ flowb[k].pc = "creating"
    /\ flowb[k].trigger = "drag"
    /\ \E c \in close_tab(tabs[flowb[k].src], active[flowb[k].src], flowb[k].index) :
          /\ tabs' = [tabs EXCEPT ![flowb[k].src] = c.tabs]
          /\ active' = [active EXCEPT ![flowb[k].src] = c.active]
    /\ flowb' = [flowb EXCEPT ![k].pc = "done", ![k].created = TRUE,
                              ![k].closed = TRUE]
    /\ lastop' = NoOp
    /\ UNCHANGED <<last, task, issued, closes, missed, registry, drag, item, timers>>

\* "Open in New Window" chosen in the context menu of the tab rendered at
\* index (the menu is disabled unless the tab is transferable): the task is
\* spawned and state.close_tab(index) runs before the handler returns
OpenInNewWindow(w, index) ==
    /\ index < Len(tabs[w])
    /\ is_transferable(Content(At(tabs[w], index)), Len(tabs[w]))
    /\ get_tab(tabs[w], index) # None
    /\ NextNewWindow \in NewWindowIds
    /\ flowb' = Spawned("menu", w, index, get_tab(tabs[w], index)[1], TRUE)
    /\ \E c \in close_tab(tabs[w], active[w], index) :
          /\ tabs' = [tabs EXCEPT ![w] = c.tabs]
          /\ active' = [active EXCEPT ![w] = c.active]
    /\ lastop' = NoOp
    /\ UNCHANGED <<last, task, issued, closes, missed, registry, drag, item, timers>>

\* the task spawned by "Open in New Window": the window is created
MenuTaskDone(k) ==
    /\ flowb[k].pc = "creating"
    /\ flowb[k].trigger = "menu"
    /\ flowb' = [flowb EXCEPT ![k].pc = "done", ![k].created = TRUE]
    /\ lastop' = NoOp
    /\ UNCHANGED <<tabs, active, last, task, issued, closes, missed, registry,
                   drag, item, timers>>

\* drag_tracking::set_target_window(window().id()), from window w
SetTarget(w) ==
    /\ registry' = set_target_window(registry, w)
    /\ lastop' = [NoOp EXCEPT !.op = "settarget", !.w = w]
    /\ UNCHANGED <<tabs, active, last, task, issued, closes, missed, drag,
                   flowb, item, timers>>

\* drag_tracking::clear_target_window()
ClearTarget ==
    /\ registry' = clear_target_window(registry)
    /\ lastop' = [NoOp EXCEPT !.op = "cleartarget"]
    /\ UNCHANGED <<tabs, active, last, task, issued, closes, missed, drag,
                   flowb, item, timers>>

\* the insertion markers a pointer over the tab bar of window w can select
DropTargets(w) == {None} \cup {Some(i) : i \in 0..Len(tabs[w])}

\* tab_drag_state.write().update_drop_target(index) in window w
UpdateDropTarget(w, index) ==
    /\ drag' = [drag EXCEPT ![w] = update_drop_target(@, index)]
    /\ lastop' = NoOp
    /\ UNCHANGED <<tabs, active, last, task, issued, closes, missed, registry,
                   flowb, item, timers>>

\* ---------------------------------------------------- specification: drag
InitDrag == InitTransfer

\* a drag gesture from its start to its end, with the pointer crossing
\* windows and tab bars in between
NextDrag ==
    \/ \E w \in Windows, index \in 0..(InitTabs - 1), offset \in Offsets :
          DragStart(w, index, offset)
    \/ \E w \in Windows, in_window \in DropTaken : DragEnd(w, in_window)
    \/ \E k \in NewWindowIds : DragTaskDone(k)
    \/ \E w \in Windows : SetTarget(w)
    \/ ClearTarget
    \/ \E w \in Windows : \E index \in DropTargets(w) : UpdateDropTarget(w, index)

SpecDrag == InitDrag /\ [][NextDrag]_vars

\* ---------------------------- specification: drag, with the context menu
NextDragUI ==
    \/ NextDrag
    \/ \E w \in Windows, index \in 0..(InitTabs - 1) : OpenInNewWindow(w, index)
    \/ \E k \in NewWindowIds : MenuTaskDone(k)

SpecDragUI == InitDrag /\ [][NextDragUI]_vars

\* ------------------------------------------------- specification: render
\* tab identities of every content variant
RenderTabs == {PreferencesTab, DefaultTab} \cup (1..Len(ContentKinds))

\* window 1 holds any collection of at most InitTabs distinct tabs
InitRender ==
    /\ \E v \in UNION {[1..n -> RenderTabs] : n \in 1..InitTabs} :
          /\ \A i, j \in 1..Len(v) : i # j => v[i] # v[j]
          /\ tabs = [w \in Windows |-> IF w = 1 THEN v ELSE InitTabsOf(w)]
    /\ active = [w \in Windows |-> 0]
    /\ last = NoCall
    /\ task = [r \in ReqIds |-> IdleTask]
    /\ issued = 0
    /\ closes = 0
    /\ missed = {}
    /\ InitUI

\* the body of TabItem runs for the tab at index of window w
RenderItem(w, index) ==
    /\ index < Len(tabs[w])
    /\ item' = [w |-> w, index |-> index,
                content |-> Content(At(tabs[w], index)),
                tabs_count |-> Len(tabs[w]),
                is_transferable |->
                    is_transferable(Content(At(tabs[w], index)), Len(tabs[w]))]
    /\ UNCHANGED <<tabs, active, last, task, issued, closes, missed, registry,
                   drag, flowb, lastop, timers>>

NextRender ==
    \/ \E w \in Windows, index \in 0..(InitTabs - 1) : RenderItem(w, index)
    \/ \E w \in Windows, index \in 0..(InitTabs - 1) : CloseTabClick(w, index)

SpecRender == InitRender /\ [][NextRender]_vars

\* ------------------------------------------------- the settle animation
\* tab_drag_state.write().trigger_animation() in window w: the flag is set
\* and a task sleeping 300 ms is spawned
TriggerAnimation(w) ==
    /\ timers[w] < MaxTriggers
    /\ drag' = [drag EXCEPT ![w] = trigger_animation(@)]
    /\ timers' = [timers EXCEPT ![w] = @ + 1]
    /\ lastop' = NoOp
    /\ UNCHANGED <<tabs, active, last, task, issued, closes, missed, registry,
                   flowb, item>>

\* the oldest sleeping timer of window w wakes up (all sleep the same
\* duration, so they wake in the order they were spawned)
AnimationTimer(w) ==
    /\ timers[w] > 0
    /\ drag' = [drag EXCEPT ![w] = animation_timer(@)]
    /\ timers' = [timers EXCEPT ![w] = @ - 1]
    /\ lastop' = NoOp
    /\ UNCHANGED <<tabs, active, last, task, issued, closes, missed, registry,
                   flowb, item>>

\* ----------------------------------------------- specification: animation
\* drags that start and end while settle animations are triggered
NextAnimation ==
    \/ \E w \in Windows : TriggerAnimation(w)
    \/ \E w \in Windows : AnimationTimer(w)
    \/ \E w \in Windows, index \in 0..(InitTabs - 1), offset \in Offsets :
          DragStart(w, index, offset)
    \/ \E w \in Windows : DragEnd(w, TRUE)

\* every timer eventually wakes up
SpecAnimation ==
    /\ InitDrag
    /\ [][NextAnimation]_vars
    /\ \A w \in Windows : WF_vars(AnimationTimer(w))

\* ------------------------------------------------------ claims on reorder
\* a reorder call has been made, and it was not rejected
Moved == last.w # 0 /\ last.result # None
\* a reorder call has been made, and its arguments were equal or out of range
Refused ==
    /\ last.w # 0
    /\ \/ last.from = last.to
       \/ last.from >= Len(last.tabs)
       \/ last.to > Len(last.tabs)

CountOf(v, x) == Cardinality({k \in 1..Len(v) : v[k] = x})

\* C1: after reorder(from, to) with from < length, to <= length, from # to,
\* the active index points at the tab that was active before the move.
C1_ActiveFollowsTab ==
    (last.w # 0 /\ ~Refused) =>
        At(tabs[last.w], active[last.w]) = At(last.tabs, last.active)

\* C1 witness: a forward move of a tab other than the active one shifted
\* the active index.
C1_Witness ==
    /\ Moved
    /\ last.from < last.to
    /\ last.active # last.from
    /\ active[last.w] # last.active

\* C2: a reorder call that is not rejected preserves the multiset of tabs
\* and the length of the collection.
C2_MultisetPreserved ==
    (last.w # 0 /\ ~Refused) =>
        /\ Len(tabs[last.w]) = Len(last.tabs)
        /\ \A x \in Range(tabs[last.w]) \cup Range(last.tabs) :
              CountOf(tabs[last.w], x) = CountOf(last.tabs, x)

\* C2 witness: a move changed the order of a collection of MaxTabs tabs.
C2_Witness ==
    /\ Moved
    /\ Len(last.tabs) = MaxTabs
    /\ tabs[last.w] # last.tabs

\* C3: reorder with from = to, from >= length or to > length returns None
\* and leaves the tab sequence and the active index unchanged.
C3_RejectedIsNoOp ==
    Refused =>
        /\ last.result = None
        /\ tabs[last.w] = last.tabs
        /\ active[last.w] = last.active

\* C3 witness: a call with to beyond the length, on a valid from, was made.
C3_Witness ==
    /\ Refused
    /\ last.from < Len(last.tabs)
    /\ last.to > Len(last.tabs)

\* C4: in every state reached by reorder calls with arbitrary arguments the
\* collection is non-empty and 0 <= active index < length.
C4_ActiveInRange ==
    \A w \in Windows :
        /\ Len(tabs[w]) >= 1
        /\ 0 <= active[w]
        /\ active[w] < Len(tabs[w])

\* C4 witness: the active tab was moved to the end of a collection of
\* MaxTabs tabs, so the active index is the last valid one.
C4_Witness ==
    /\ Moved
    /\ last.active = last.from
    /\ last.to = Len(last.tabs)
    /\ Len(last.tabs) = MaxTabs
    /\ active[last.w] = MaxTabs - 1
    /\ last.active # active[last.w]

\* ----------------------------------------------------- claims on transfer
Holders(r) ==
    {w \in {task[r].src, task[r].target} : task[r].tab \in Range(tabs[w])}

\* the wait loop of request r has ended: matching Ack, matching Nack, timeout
Resolved(r) ==
    task[r].pc = "done" /\ task[r].outcome \in {"ack", "nack", "timeout"}

\* C5: in every reachable state of Flow A a tab is held by at most one
\* window's collection, also between the target's acceptance and the
\* source's commit.
C5_NeverInTwoCollections ==
    \A w1, w2 \in Windows :
        w1 # w2 => Range(tabs[w1]) \cap Range(tabs[w2]) = {}

\* C6: once the wait loop of a transfer has ended, the moved tab is held by
\* exactly one of the source and target collections.
C6_ExactlyOneHolder ==
    \A r \in ReqIds : Resolved(r) => Cardinality(Holders(r)) = 1

\* C7: a source window that sent exactly one request and received its
\* matching Ack has removed exactly one tab, and a transfer task removes a
\* tab only on receipt of the matching Ack.
C7_ExactlyOneRemoved ==
    \A r \in ReqIds :
        /\ (/\ task[r].outcome = "ack"
            /\ \A q \in ReqIds \ {r} : task[q].src # task[r].src)
           => task[r].removed = 1
        /\ task[r].removed > 0 => task[r].cause = Ack(r)

\* a step of the transfer task of request r itself (the handler that spawns
\* it, a step before the loop, or one turn of the loop)
OwnStep(r) ==
    \/ task'[r].pc # task[r].pc
    \/ Len(task'[r].rx) < Len(task[r].rx)

\* C8: a transfer that ends by a matching Nack or by timeout has performed
\* no mutation of the source collection: every step of a transfer task that
\* is not the commit on the matching Ack leaves every tab sequence and
\* every active index unchanged.
C8_NoMutationOnRollback ==
    [][\A r \in ReqIds :
          (OwnStep(r) /\ task'[r].outcome # "ack")
              => (tabs' = tabs /\ active' = active)]_vars

\* C8 witness: one transfer has ended by timeout and another by Nack.
C8_Witness ==
    \E r, q \in ReqIds :
        /\ task[r].pc = "done" /\ task[r].outcome = "timeout"
        /\ task[q].pc = "done" /\ task[q].outcome = "nack"

\* C9: the wait of a transfer is ended, and its commit caused, only by a
\* response bearing its own request identifier; after a response with
\* another identifier the task is still suspended in its select!.
C9_OwnIdOnly ==
    \A r \in ReqIds :
        /\ task[r].outcome = "ack" => task[r].cause = Ack(r)
        /\ task[r].outcome = "nack" => task[r].cause = Nack(r)
        /\ task[r].cause # NoResponse => task[r].cause.id = r
        /\ task[r].removed > 0 => task[r].outcome = "ack"
        /\ (task[r].ignored > 0 /\ task[r].pc # "done") => InSelect(task[r])

\* C9 witness: a task received the Ack of a concurrent transfer, ignored
\* it, and later committed on its own Ack.
C9_Witness ==
    \E r \in ReqIds :
        /\ task[r].ignored > 0
        /\ task[r].outcome = "ack"
        /\ task[r].removed = 1

\* C10: the source subscribes before it publishes, so no response to a
\* published request is emitted before the source listens.
C10_SubscribeBeforePublish ==
    /\ missed = {}
    /\ \A r \in ReqIds :
          task[r].request # "none" => (task[r].subscribed \/ task[r].pc = "done")

\* C10 witness: the target's Ack, emitted after the request was published,
\* is in the receiver of the waiting source.
C10_Witness ==
    \E r \in ReqIds :
        /\ task[r].pc = "waiting"
        /\ task[r].request = "accepted"
        /\ task[r].rx = <<Ack(r)>>

\* ------------------------------------------- claims on the commit's index
\* the step in which the task of request r commits on its matching Ack
CommitStep(r) == task[r].outcome # "ack" /\ task'[r].outcome = "ack"

\* C17: on a matching Ack the tab the source removes from its collection is
\* the tab carried by the request, whatever else happened to the source
\* collection since the request was prepared.
C17_CommitRemovesRequestTab ==
    [][\A r \in ReqIds :
          CommitStep(r) =>
              /\ Len(tabs'[task[r].src]) = Len(tabs[task[r].src]) - 1
              /\ CountOf(tabs'[task[r].src], task[r].tab)
                     = CountOf(tabs[task[r].src], task[r].tab) - 1]_vars

\* C18: at every commit of a transfer the source collection holds more than
\* one tab, and no collection is ever left with zero tabs.
C18_NeverMovesSoleTab ==
    [][/\ \A r \in ReqIds : CommitStep(r) => Len(tabs[task[r].src]) > 1
       /\ \A w \in Windows : Len(tabs'[w]) >= 1]_vars

\* ----------------------------------------------- claims on reorder, cont.
\* the index the moved tab is expected at: to - 1 for a forward move
ExpectedIndex(from_index, to_index) ==
    IF from_index < to_index THEN to_index - 1 ELSE to_index

C13_SendFailureAborts ==
    [][\A r \in ReqIds :
          /\ (StepAt(task[r]) = "send" /\ task'[r].pc # task[r].pc) =>
                \/ /\ task'[r].request = "pending"
                   /\ task'[r].pc = PcAfter(task[r].pc)
                \/ /\ task'[r].pc = "done"
                   /\ task'[r].outcome = "sendfail"
                   /\ task'[r].request = "none"
                   /\ tabs' = tabs
                   /\ active' = active
          /\ task[r].outcome = "sendfail" => task'[r] = task[r]]_vars

\* C13 witness: a task has returned on a failed publish while another
\* transfer went on.
C13_Witness ==
    \E r, q \in ReqIds :
        /\ task[r].pc = "done"
        /\ task[r].outcome = "sendfail"
        /\ task[q].request = "accepted"

\* C20: every transfer task that has entered its wait loop leaves it, by the
\* matching Ack, the matching Nack or the timeout.
C20_WaitTerminates ==
    \A r \in ReqIds :
        InSelect(task[r]) ~>
            (task[r].pc = "done" /\ task[r].outcome \in {"ack", "nack", "timeout"})

\* C20 witness: a task whose receive failed waits for the timer alone while
\* the target has already accepted its tab, and later ends by the timeout.
C20_Witness ==
    \E r, q \in ReqIds :
        /\ task[r].pc = "timer_only"
        /\ task[r].request = "accepted"
        /\ task[q].pc = "done"
        /\ task[q].outcome = "timeout"
        /\ task[q].request = "accepted"

\* ----------------------------------------------------- claims on dragging
\* C14: the registry holds at most one record, and a drag start replaces
\* whatever the slot held by a record of the new source window, tab index
\* and offset, with no candidate target.
C14_RegistrySingleRecord ==
    /\ Len(registry) <= 1
    /\ lastop.op = "dragstart" =>
          registry = Some([source_window_id |-> lastop.w,
                           source_tab_index |-> lastop.index,
                           offset_x |-> lastop.offset[1],
                           offset_y |-> lastop.offset[2],
                           target_window_id |-> None])

\* C14 witness: a drag started while the slot still held the record of a
\* drag of the other window, which has not ended.
C14_Witness ==
    /\ lastop.op = "dragstart"
    /\ lastop.replaced # 0
    /\ lastop.replaced # lastop.w
    /\ registry[1].source_window_id = lastop.w
    /\ drag[lastop.replaced].dragging_tab_index # None

\* C15: after the drag-end handler has run the registry is empty, the
\* window's DragSession has neither a dragged index nor a drop target, and
\* no tab collection has changed.
C15_DragEndLeavesNoState ==
    lastop.op = "dragend" =>
        /\ registry = None
        /\ drag[lastop.w].dragging_tab_index = None
        /\ drag[lastop.w].drop_target_index = None
        /\ tabs = lastop.tabs

\* C15 witness: a drag with a drop target shown ended outside any window
\* and the handler spawned the task that moves the tab to a new window.
C15_Witness ==
    /\ lastop.op = "dragend"
    /\ lastop.replaced = lastop.w
    /\ lastop.marked
    /\ \E k \in NewWindowIds :
          flowb[k].pc = "creating" /\ flowb[k].src = lastop.w

\* C16: in every window a drop target is recorded only while a dragged
\* index is recorded, and update_drop_target changes neither the tab
\* collections nor the dragged index.
C16_DropTargetOnlyWhileDragging ==
    /\ [](\A w \in Windows :
            drag[w].drop_target_index # None =>
                drag[w].dragging_tab_index # None)
    /\ [][\A w \in Windows :
            (/\ drag'[w].drop_target_index # None
             /\ drag'[w].drop_target_index # drag[w].drop_target_index) =>
                /\ tabs' = tabs
                /\ drag'[w].dragging_tab_index = drag[w].dragging_tab_index]_vars

\* -------------------------------------- claims on the move to a new window
\* C11: the source closes the tab only after the new window has been
\* created, and while creation is pending the tab is still in its window.
C11_RemoveOnlyAfterCreation ==
    \A k \in NewWindowIds :
        /\ flowb[k].closed => flowb[k].created
        /\ flowb[k].pc = "creating" =>
              CountOf(tabs[flowb[k].src], flowb[k].tab) = 1

\* ---------------------------------------------- claims on transferability
\* C12: a rendered tab is transferable exactly when its content is File or
\* FileError and its window holds more than one tab; the sole tab of a
\* window is never transferable.
C12_TransferableIffFileAndNotSole ==
    item.w # 0 =>
        /\ item.is_transferable =>
              (item.content \in {"File", "FileError"} /\ item.tabs_count > 1)
        /\ (item.content \in {"File", "FileError"} /\ item.tabs_count > 1) =>
              item.is_transferable
        /\ item.content \in {"Inline", "Preferences", "None"} => ~item.is_transferable
        /\ item.tabs_count = 1 => ~item.is_transferable

\* C12 witness: a window was left with a single File tab by a click on the
\* close button, and the tab is rendered not transferable.
C12_Witness ==
    /\ closes > 0
    /\ item.w # 0
    /\ tabs[item.w] = <<At(tabs[item.w], 0)>>
    /\ item.tabs_count = 1
    /\ item.content = "File"
    /\ ~item.is_transferable

\* ----------------------------------------------- claims on reorder, cont.
\* C21: a reorder call that leaves the tab sequence as it was returns None;
\* a call that returns an index has moved a tab.
C21_NoneWhenNothingMoved ==
    (last.w # 0 /\ tabs[last.w] = last.tabs) => last.result = None

\* ------------------------------------------- claims on dragging, cont.
\* C23: set_target_window and clear_target_window change only the target
\* field of the record in the registry, and leave an empty slot empty.
C23_TargetCallsChangeTargetOnly ==
    [][lastop'.op \in {"settarget", "cleartarget"} =>
          IF registry = None
          THEN registry' = None
          ELSE /\ registry' # None
               /\ registry'[1].source_window_id = registry[1].source_window_id
               /\ registry'[1].source_tab_index = registry[1].source_tab_index
               /\ registry'[1].offset_x = registry[1].offset_x
               /\ registry'[1].offset_y = registry[1].offset_y
               /\ registry'[1].target_window_id =
                      IF lastop'.op = "settarget" THEN Some(lastop'.w) ELSE None]_vars

\* C23 witness: the target of a drag with a non-zero offset was set to the
\* window the drag did not start in.
C23_Witness ==
    /\ lastop.op = "settarget"
    /\ registry # None
    /\ registry[1].target_window_id = Some(lastop.w)
    /\ registry[1].source_window_id # lastop.w
    /\ registry[1].offset_x # 0

\* ------------------------------------------------- claims on the animation
\* C22: a timer that clears the settle flag is the timer of the latest
\* trigger: no animation triggered later is still within its duration.
C22_NotClearedByEarlierTimer ==
    [][\A w \in Windows :
          (/\ timers'[w] < timers[w]
           /\ drag[w].animating
           /\ ~drag'[w].animating) => timers'[w] = 0]_vars

====
